---- MODULE Spec2Model ----
(***************************************************************************)
(* Model of the production-plan calculator of src/main.py                  *)
(* (class ProductionPlanCalculator and the pydantic records it works on).  *)
(*                                                                         *)
(* Numbers.  load, pmin and the nameplate pmax are Python ints.  The       *)
(* quantities the allocation loop computes are IEEE-754 binary64 values:   *)
(*   - an effective pmax is pmax * wind / 100.  For the wind percentages   *)
(*     of WindSet (multiples of 25) every such product and quotient is a   *)
(*     dyadic rational with a short mantissa, so the float operations are  *)
(*     exact; the value is kept as [num, k], meaning num / 4^k.            *)
(*   - power and remaining_load are (sums and differences of) doubles      *)
(*     nearest to a multiple of 0.1.  Such a double x is kept exactly as   *)
(*     [t, e], meaning x = (t * 2^56 + e) / (10 * 2^56): t is the nominal  *)
(*     number of tenths and e the representation error in units of         *)
(*     2^-56 / 10.  FloatRound rounds an exact value of that form to the   *)
(*     nearest double, ties to even, as the hardware subtraction and       *)
(*     Python's round() do.                                                *)
(***************************************************************************)
EXTENDS Integers, Sequences, FiniteSets, TLC

\* ------------------------------------------------------------------------
\* binary64 arithmetic on values (t * 2^56 + e) / (10 * 2^56)
\* ------------------------------------------------------------------------

RECURSIVE Pow2(_)
Pow2(n) == IF n = 0 THEN 1 ELSE 2 * Pow2(n - 1)

\* 2^n mod 10 without forming 2^n (n may be as large as 55)
Pow2Mod10(n) == IF n = 0 THEN 1 ELSE <<2, 4, 8, 6>>[((n - 1) % 4) + 1]

\* x >= 2^ex for x = [t, e] > 0 and -3 <= ex; 10 * 2^ex is 1.25, 2.5, 5, 10, ...
GePow2(t, e, ex) ==
    IF ex >= -1
    THEN LET c == IF ex = -1 THEN 5 ELSE 10 * Pow2(ex)
         IN  t > c \/ (t = c /\ e >= 0)
    ELSE IF ex = -2 THEN t >= 3 ELSE t >= 2

\* floor(log2 x) for x = [t, e] with t >= 1; -4 stands for "below 2^-3"
RECURSIVE BinadeFrom(_, _, _)
BinadeFrom(t, e, ex) ==
    IF GePow2(t, e, ex + 1) THEN BinadeFrom(t, e, ex + 1) ELSE ex

Binade(t, e) == IF GePow2(t, e, -3) THEN BinadeFrom(t, e, -3) ELSE -4

\* The double nearest to the exact value [t, e], t >= 0, round-half-to-even.
\* With t = 0 the value is a tiny multiple of 2^-56 and a double already.
\* Otherwise the doubles of its binade are the multiples of 2^-s, s <= 56,
\* i.e. of g in units of 2^-56 / 10; t * 2^56 = g * Q + r * w with
\* Q = floor(t * 2^s / 10), whose parity qpar decides an exact tie.
FloatRoundPos(t, e) ==
    IF t = 0 THEN [t |-> 0, e |-> e]
    ELSE LET s    == 52 - Binade(t, e)
             w    == Pow2(56 - s)
             g    == 10 * w
             r    == ((t % 10) * Pow2Mod10(s)) % 10
             y    == r * w + e
             q    == y \div g
             rho  == y % g
             qpar == IF (((t % 10) * Pow2Mod10(s - 1)) % 10) >= 5
                     THEN 1 ELSE 0
             odd  == ((qpar + q) % 2) = 1
             up   == 2 * rho > g \/ (2 * rho = g /\ odd)
         IN  [t |-> t, e |-> g * (IF up THEN q + 1 ELSE q) - r * w]

FloatRound(t, e) ==
    IF t < 0
    THEN LET m == FloatRoundPos(-t, -e) IN [t |-> -m.t, e |-> -m.e]
    ELSE FloatRoundPos(t, e)

\* float(n) for a Python int n
FloatOfInt(n) == [t |-> 10 * n, e |-> 0]

\* x - y in binary64
FloatSub(x, y) == FloatRound(x.t - y.t, x.e - y.e)

\* x > 0
FloatPos(x) == x.t > 0 \/ (x.t = 0 /\ x.e > 0)

\* "remaining_load <= plant.pmin" in place of "<"
FloatLtIntOrEqual(x, n) == x.t < 10 * n \/ (x.t = 10 * n /\ x.e <= 0)

\* x < n for a double x and a Python int n (exact comparison)
FloatLtInt(x, n) == x.t < 10 * n \/ (x.t = 10 * n /\ x.e < 0)

\* x >= d for a double x = [t, e] and a dyadic d = num / 4^k.
\* 10 * num = 4^k * a + b; the error term e is far below 2^56 / 4^k, so a
\* non-zero b decides the comparison when t = a.
FloatGeDyadic(x, d) ==
    LET den == Pow2(2 * d.k)
        a   == (10 * d.num) \div den
        b   == (10 * d.num) % den
    IN  x.t > a \/ (x.t = a /\ b = 0 /\ x.e >= 0)

\* float(round(d, 1)) for d = num / 4^k >= 0: the nearest tenth of the exact
\* value, an exact half going to the even tenth, then the nearest double
RoundDyadic(d) ==
    LET den == Pow2(2 * d.k)
        q   == (10 * d.num) \div den
        r   == (10 * d.num) % den
        t   == IF 2 * r > den \/ (2 * r = den /\ q % 2 = 1) THEN q + 1 ELSE q
    IN  FloatRound(t, 0)

\* float(round(x, 1)) for a double x = [t, e]: e is far below half a tenth,
\* so the nearest tenth is t
RoundFloat(x) == FloatRound(x.t, 0)

\* ------------------------------------------------------------------------
\* Input domain
\* ------------------------------------------------------------------------

MaxLoad  == 3
MaxUnits == 3
MaxCalls == 2

\* wind(%): multiples of 25, so that pmax * wind / 100 is exact in binary64
WindSet == {25, 75, 100}
\* gas(euro/MWh) and kerosine(euro/MWh)
GasSet == {1, 2}
KerosineSet == {2}

Types == {"gasfired", "turbojet", "windturbine", "solarfired"}

\* efficiency is kept in quarters (2 is 0.5, 4 is 1.0: exact doubles);
\* pmax = [num, k] is num / 4^k, a nameplate pmax being [num, 0]
Unit(ty, eff, pmin, pmax) ==
    [type |-> ty, efficiency |-> eff, pmin |-> pmin,
     pmax |-> [num |-> pmax, k |-> 0]]

Catalog ==
    { Unit("windturbine", 4, 0, 1),
      Unit("windturbine", 4, 0, 3),
      Unit("gasfired",    2, 0, 3),
      Unit("gasfired",    2, 2, 1),
      Unit("turbojet",    4, 1, 2),
      Unit("solarfired",  4, 0, 1) }

\* cost_per_MWH: Optional[float] = None
NoneCost == [num |-> 0, den |-> 0]

\* Powerplant(name=..., type=..., ...): the name of a unit is its position
Powerplant(u, name) ==
    [name |-> name, type |-> u.type, efficiency |-> u.efficiency,
     pmin |-> u.pmin, pmax |-> u.pmax, cost_per_MWH |-> NoneCost]

UnitLists == UNION { [1..n -> Catalog] : n \in 1..MaxUnits }

\* ------------------------------------------------------------------------
\* State
\* ------------------------------------------------------------------------

VARIABLES
    load,             \* self.load
    fuels,            \* self.fuels
    powerplants,      \* self.powerplants: the caller's Powerplant objects
    pc,               \* "idle", "derive" (lines 73-75), "alloc" (lines 83-96)
    i,                \* position of the running for loop
    plants,           \* the sorted list of references (indices of powerplants)
    production_plan,  \* the list being built
    remaining_load,
    result,           \* what the last finished call handed to its caller
    results,          \* the outcomes of all finished calls, oldest first
    before,           \* powerplants as they were when the running call began
    branch,           \* the branch the last iteration of the allocation
                      \* loop took: "raise", "full", "fill", "zero"
    pmax_result       \* argument and outcome of a direct call of
                      \* calculate_pmax

vars == <<load, fuels, powerplants, pc, i, plants, production_plan,
          remaining_load, result, results, before, branch, pmax_result>>

NoResult == [kind |-> "none", plan |-> <<>>]
Raised(exc) == [kind |-> exc, plan |-> <<>>]
Returned(plan) == [kind |-> "plan", plan |-> plan]

\* ------------------------------------------------------------------------
\* ProductionPlanCalculator
\* ------------------------------------------------------------------------

\* the final else branch gives an unknown type the cost 0 instead of raising
calculate_cost_per_MWH_NoRaise(f, powerplant) ==
    IF powerplant.type = "gasfired"
    THEN [num |-> 4 * f.gas, den |-> powerplant.efficiency]
    ELSE IF powerplant.type = "turbojet"
    THEN [num |-> 4 * f.kerosine, den |-> powerplant.efficiency]
    ELSE [num |-> 0, den |-> 1]

\* the cost as the exact quotient price / (efficiency / 4); None when the
\* method raises InvalidPlantTypeProvided.  Prices and efficiencies are
\* exact doubles and distinct quotients differ by far more than an ulp, so
\* comparing the rounded quotients is comparing these fractions.
calculate_cost_per_MWH(f, powerplant) ==
    IF powerplant.type = "gasfired"
    THEN [num |-> 4 * f.gas, den |-> powerplant.efficiency]
    ELSE IF powerplant.type = "turbojet"
    THEN [num |-> 4 * f.kerosine, den |-> powerplant.efficiency]
    ELSE IF powerplant.type = "windturbine"
    THEN [num |-> 0, den |-> 1]
    ELSE NoneCost

\* [ok |-> TRUE, pmax |-> ...] or, when no branch binds the local pmax,
\* the UnboundLocalError of "return pmax"
calculate_pmax(f, powerplant) ==
    IF powerplant.type = "windturbine"
    THEN [ok |-> TRUE,
          pmax |-> [num |-> powerplant.pmax.num * (f.wind \div 25),
                    k   |-> powerplant.pmax.k + 1]]
    ELSE IF powerplant.type \in {"gasfired", "turbojet"}
    THEN [ok |-> TRUE, pmax |-> powerplant.pmax]
    ELSE [ok |-> FALSE, pmax |-> powerplant.pmax]

\* a.cost_per_MWH < b.cost_per_MWH
CostLt(a, b) == a.num * b.den < b.num * a.den

\* an unstable sort: an element goes in front of its equals
RECURSIVE SortedInsertUnstable(_, _, _)
SortedInsertUnstable(s, j, pp) ==
    IF s = <<>> THEN <<j>>
    ELSE IF ~CostLt(pp[Head(s)].cost_per_MWH, pp[j].cost_per_MWH)
         THEN <<j>> \o s
         ELSE <<Head(s)>> \o SortedInsertUnstable(Tail(s), j, pp)

\* sorted() is stable: an element goes behind every element that does not
\* compare greater than it
RECURSIVE SortedInsert(_, _, _)
SortedInsert(s, j, pp) ==
    IF s = <<>> THEN <<j>>
    ELSE IF CostLt(pp[j].cost_per_MWH, pp[Head(s)].cost_per_MWH)
         THEN <<j>> \o s
         ELSE <<Head(s)>> \o SortedInsert(Tail(s), j, pp)

RECURSIVE SortedPrefix(_, _)
SortedPrefix(n, pp) ==
    IF n = 0 THEN <<>> ELSE SortedInsert(SortedPrefix(n - 1, pp), n, pp)

\* sorted(plants, key=lambda x: x.cost_per_MWH)
sorted(pp) == SortedPrefix(Len(pp), pp)

Init ==
    /\ load \in 0..MaxLoad
    /\ fuels \in [gas : GasSet, kerosine : KerosineSet, wind : WindSet]
    /\ \E us \in UnitLists :
          powerplants = [n \in DOMAIN us |-> Powerplant(us[n], n)]
    /\ pc = "idle"
    /\ i = 0
    /\ plants = <<>>
    /\ production_plan = <<>>
    /\ remaining_load = FloatOfInt(0)
    /\ result = NoResult
    /\ results = <<>>
    /\ before = powerplants
    /\ branch = "none"
    /\ pmax_result = [arg |-> 0, outcome |-> "none"]

\* the call ends: the caller gets the plan or the exception
Finish(r) ==
    /\ pc' = "idle"
    /\ i' = 0
    /\ result' = r
    /\ results' = Append(results, r)

\* get_production_plan() is entered and calls
\* get_sorted_powerplants_with_pmax_and_cost(): plants = list(self.powerplants)
Call ==
    /\ pc = "idle"
    /\ Len(results) < MaxCalls
    /\ pc' = "derive"
    /\ i' = 1
    /\ before' = powerplants
    /\ plants' = [n \in 1..Len(powerplants) |-> n]
    /\ production_plan' = <<>>
    /\ remaining_load' = FloatOfInt(0)
    /\ branch' = "none"
    /\ UNCHANGED <<load, fuels, powerplants, result, results, pmax_result>>

\* one iteration of the loop of get_sorted_powerplants_with_pmax_and_cost
DeriveStep ==
    /\ pc = "derive"
    /\ i <= Len(powerplants)
    /\ LET cost   == calculate_cost_per_MWH(fuels, powerplants[i])
           costed == [powerplants EXCEPT ![i].cost_per_MWH = cost]
           pm     == calculate_pmax(fuels, costed[i])
       IN  IF cost = NoneCost
           THEN /\ Finish(Raised("InvalidPlantTypeProvided"))
                /\ UNCHANGED powerplants
           ELSE IF ~pm.ok
           THEN /\ Finish(Raised("UnboundLocalError"))
                /\ powerplants' = costed
           ELSE /\ powerplants' = [costed EXCEPT ![i].pmax = pm.pmax]
                /\ i' = i + 1
                /\ UNCHANGED <<pc, result, results>>
    /\ UNCHANGED <<load, fuels, plants, production_plan, remaining_load,
                   before, branch, pmax_result>>

\* the loop is over: return sorted(...); production_plan = [];
\* remaining_load = self.load
get_sorted_powerplants_with_pmax_and_cost ==
    /\ pc = "derive"
    /\ i > Len(powerplants)
    /\ plants' = sorted(powerplants)
    /\ production_plan' = <<>>
    /\ remaining_load' = FloatOfInt(load)
    /\ pc' = "alloc"
    /\ i' = 1
    /\ UNCHANGED <<load, fuels, powerplants, result, results, before,
                   branch, pmax_result>>

ResultItem(name, p) == [name |-> name, p |-> p]

\* remaining_load >= plant.pmax: the branch of line 88; otherwise, once
\* remaining_load < plant.pmin is excluded, the condition of line 90 holds
FullCapacity(rem, plant) == FloatGeDyadic(rem, plant.pmax)

\* the power the loop body assigns when remaining_load > 0 and it does not
\* raise
Power(rem, plant) ==
    IF FullCapacity(rem, plant)
    THEN RoundDyadic(plant.pmax)
    ELSE RoundFloat(rem)

\* one iteration of the loop of get_production_plan
AllocStep ==
    /\ pc = "alloc"
    /\ i <= Len(plants)
    /\ LET plant == powerplants[plants[i]]
       IN  IF FloatPos(remaining_load)
           THEN IF FloatLtInt(remaining_load, plant.pmin)
                THEN /\ Finish(Raised("ManualInterventionNeeded"))
                     /\ branch' = "raise"
                     /\ UNCHANGED <<remaining_load, production_plan>>
                ELSE LET power == Power(remaining_load, plant)
                     IN  /\ remaining_load' = FloatSub(remaining_load, power)
                         /\ production_plan' =
                               Append(production_plan,
                                      ResultItem(plant.name, power))
                         /\ branch' = IF FullCapacity(remaining_load, plant)
                                      THEN "full" ELSE "fill"
                         /\ i' = i + 1
                         /\ UNCHANGED <<pc, result, results>>
           ELSE /\ production_plan' =
                      Append(production_plan,
                             ResultItem(plant.name, FloatOfInt(0)))
                /\ branch' = "zero"
                /\ i' = i + 1
                /\ UNCHANGED <<pc, result, results, remaining_load>>
    /\ UNCHANGED <<load, fuels, powerplants, plants, before, pmax_result>>

\* return production_plan
get_production_plan ==
    /\ pc = "alloc"
    /\ i > Len(plants)
    /\ Finish(Returned(production_plan))
    /\ UNCHANGED <<load, fuels, powerplants, plants, production_plan,
                   remaining_load, before, branch, pmax_result>>

\* calculate_pmax(powerplant) called on its own on one of the units
calculate_pmax_call ==
    /\ pc = "idle"
    /\ pmax_result.outcome = "none"
    /\ \E n \in 1..Len(powerplants) :
          pmax_result' =
              [arg |-> n,
               outcome |-> IF calculate_pmax(fuels, powerplants[n]).ok
                           THEN "returned" ELSE "UnboundLocalError"]
    /\ UNCHANGED <<load, fuels, powerplants, pc, i, plants, production_plan,
                   remaining_load, result, results, before, branch>>

Next ==
    \/ Call
    \/ DeriveStep
    \/ get_sorted_powerplants_with_pmax_and_cost
    \/ AllocStep
    \/ get_production_plan

Spec == Init /\ [][Next]_vars

\* calculate_pmax used on its own
SpecPmax == Init /\ [][calculate_pmax_call]_vars


\* ------------------------------------------------------------------------
\* Properties
\* ------------------------------------------------------------------------

\* exact comparisons of the values [t, e] and num / 4^k
IsZero(x) == x.t = 0 /\ x.e = 0
ValLe(x, y) == x.t < y.t \/ (x.t = y.t /\ x.e <= y.e)
ValGt0(x) == ~ValLe(x, [t |-> 0, e |-> 0])
ValGeInt(x, n) == ValLe([t |-> 10 * n, e |-> 0], x)
ValLeDyadic(x, d) ==
    LET den == Pow2(2 * d.k)
        a   == (10 * d.num) \div den
        b   == (10 * d.num) % den
    IN  x.t < a \/ (x.t = a /\ (b > 0 \/ x.e <= 0))
ValLtDyadic(x, d) ==
    LET den == Pow2(2 * d.k)
        a   == (10 * d.num) \div den
        b   == (10 * d.num) % den
    IN  x.t < a \/ (x.t = a /\ (b > 0 \/ x.e < 0))

Unknown(u) == u.type \notin {"gasfired", "turbojet", "windturbine"}

\* nameplate pmax for gasfired and turbojet, pmax * wind% / 100 for a
\* windturbine, of a unit as it was handed to the call
EffectiveMax(u) ==
    IF u.type = "windturbine"
    THEN [num |-> u.pmax.num * (fuels.wind \div 25), k |-> u.pmax.k + 1]
    ELSE u.pmax

\* the marginal cost of a is below that of b: price_a / eff_a < price_b / eff_b
Price(u) == IF u.type = "gasfired" THEN fuels.gas
            ELSE IF u.type = "turbojet" THEN fuels.kerosine ELSE 0
MarginalCostLt(a, b) == Price(a) * b.efficiency < Price(b) * a.efficiency

RECURSIVE SumT(_)
SumT(plan) == IF plan = <<>> THEN 0 ELSE Head(plan).p.t + SumT(Tail(plan))
RECURSIVE SumE(_)
SumE(plan) == IF plan = <<>> THEN 0 ELSE Head(plan).p.e + SumE(Tail(plan))

\* | sum of p - load | <= 0.1
WithinTenth(plan) ==
    LET dt == SumT(plan) - 10 * load
        de == SumE(plan)
    IN  \/ dt = 0
        \/ dt = 1 /\ de <= 0
        \/ dt = -1 /\ de >= 0

\* C1: whenever get_production_plan returns a plan, the assigned outputs sum
\* to the requested load to within 0.1.
C1_Conservation ==
    \A c \in DOMAIN results :
        results[c].kind = "plan" => WithinTenth(results[c].plan)

\* C2: in every returned plan each unit's assigned output p satisfies
\* 0 <= p <= the unit's effective maximum output (unrounded).
C2_CapacityBounds ==
    (pc = "idle" /\ result.kind = "plan") =>
        \A n \in DOMAIN result.plan :
            LET item == result.plan[n]
            IN  /\ ValGeInt(item.p, 0)
                /\ ValLeDyadic(item.p, EffectiveMax(before[item.name]))

\* the names of a plan are the input units stably sorted by marginal cost
RankedOrder(plan) ==
    /\ Len(plan) = Len(powerplants)
    /\ \A n \in DOMAIN powerplants :
           Cardinality({a \in DOMAIN plan : plan[a].name = n}) = 1
    /\ \A a, b \in DOMAIN plan :
           a < b =>
               LET ua == powerplants[plan[a].name]
                   ub == powerplants[plan[b].name]
               IN  /\ ~MarginalCostLt(ub, ua)
                   /\ ~MarginalCostLt(ua, ub) => plan[a].name < plan[b].name

\* C3: a returned plan lists every input unit exactly once, by ascending
\* marginal cost, units of equal cost in their input order.
C3_RankedOrder ==
    \A c \in DOMAIN results :
        results[c].kind = "plan" => RankedOrder(results[c].plan)

\* a plan was returned in which the sort moved a unit forward and kept two
\* units of different type but equal cost in input order
C3_Witness ==
    /\ pc = "idle"
    /\ result.kind = "plan"
    /\ \E a, b \in DOMAIN result.plan :
           a < b /\ result.plan[a].name > result.plan[b].name
    /\ \E a, b \in DOMAIN result.plan :
           /\ a < b
           /\ powerplants[result.plan[a].name].type = "gasfired"
           /\ powerplants[result.plan[b].name].type = "turbojet"
           /\ ~MarginalCostLt(powerplants[result.plan[a].name],
                              powerplants[result.plan[b].name])

\* the loop stands at a unit with 0 < remaining_load < pmin
BelowFloor ==
    /\ pc = "alloc"
    /\ i <= Len(plants)
    /\ ValGt0(remaining_load)
    /\ ~ValGeInt(remaining_load, powerplants[plants[i]].pmin)

\* C4: reaching a unit with 0 < remaining_load < pmin ends the call with
\* ManualInterventionNeeded and no plan, and the exception is raised in no
\* other situation.
C4_InfeasibleWhole ==
    [][/\ BelowFloor =>
            /\ pc' = "idle"
            /\ result' = [kind |-> "ManualInterventionNeeded", plan |-> <<>>]
            /\ results' = Append(results, result')
       /\ (results' # results /\ result'.kind = "ManualInterventionNeeded")
            => BelowFloor
      ]_vars

\* the exception was raised with a partial plan built and units still to come
C4_Witness ==
    /\ pc = "idle"
    /\ result.kind = "ManualInterventionNeeded"
    /\ Len(production_plan) >= 1
    /\ Len(production_plan) + 1 < Len(powerplants)

\* C5: with a unit of unknown type anywhere in the list the call raises
\* InvalidPlantTypeProvided at that unit, before any result item exists, and
\* never returns a plan or raises another exception.
C5_UnknownKindAborts ==
    (\E n \in DOMAIN powerplants : Unknown(powerplants[n])) =>
        /\ production_plan = <<>>
        /\ pc # "alloc"
        /\ pc = "derive" => \A n \in 1..(i - 1) : ~Unknown(powerplants[n])
        /\ \A c \in DOMAIN results :
               results[c] = [kind |-> "InvalidPlantTypeProvided",
                             plan |-> <<>>]

\* a call on a positive load ended at an unknown unit in the last position,
\* behind known units
C5_Witness ==
    /\ pc = "idle"
    /\ Len(results) >= 1
    /\ result.kind = "InvalidPlantTypeProvided"
    /\ load > 0
    /\ Len(powerplants) >= 2
    /\ Unknown(powerplants[Len(powerplants)])
    /\ \A n \in 1..(Len(powerplants) - 1) : ~Unknown(powerplants[n])

\* C6: two calls in succession on the same calculator give the same outcome.
C6_Deterministic ==
    Len(results) >= 2 => results[2] = results[1]

\* C7: when a call has finished the caller's unit records (every field, and
\* the order of the list) are as they were before the call.
C7_NoSideEffects ==
    (pc = "idle" /\ Len(results) >= 1) => powerplants = before

\* the loop stands at a unit with pmin <= remaining_load < effective capacity
ExactFillCase ==
    /\ pc = "alloc"
    /\ i <= Len(plants)
    /\ ValGt0(remaining_load)
    /\ ValGeInt(remaining_load, powerplants[plants[i]].pmin)
    /\ ValLtDyadic(remaining_load, powerplants[plants[i]].pmax)

\* C8: an exact fill assigns exactly remaining_load and leaves 0; every unit
\* after it gets 0 and none raises; remaining_load never grows and never
\* goes below 0 during the pass.
C8_ExactFillCloses ==
    [][/\ ExactFillCase =>
            /\ production_plan' =
                   Append(production_plan,
                          [name |-> powerplants[plants[i]].name,
                           p |-> remaining_load])
            /\ IsZero(remaining_load')
       /\ (pc = "alloc" /\ i <= Len(plants)) =>
            /\ ValLe(remaining_load', remaining_load)
            /\ ValGeInt(remaining_load', 0)
       /\ (pc = "alloc" /\ i <= Len(plants) /\ branch \in {"fill", "zero"}) =>
            /\ result'.kind # "ManualInterventionNeeded" \/ results' = results
            /\ Len(production_plan') = Len(production_plan) + 1
            /\ IsZero(production_plan'[Len(production_plan')].p)
      ]_vars

\* C9: calculate_pmax on a unit of unknown type fails with
\* InvalidPlantTypeProvided, as calculate_cost_per_MWH does.
C9_PmaxDefends ==
    (pmax_result.outcome # "none"
     /\ Unknown(powerplants[pmax_result.arg])) =>
        pmax_result.outcome = "InvalidPlantTypeProvided"

\* C10: in every returned plan a unit with a non-zero output has an output of
\* at least its pmin; an iteration with remaining_load > 0 that does not
\* raise takes exactly one of the full-capacity and exact-fill branches.
C10_MinimumFloor ==
    /\ \A c \in DOMAIN results :
           results[c].kind = "plan" =>
               \A n \in DOMAIN results[c].plan :
                   LET item == results[c].plan[n]
                   IN  ~IsZero(item.p) =>
                           ValGeInt(item.p, powerplants[item.name].pmin)
    /\ (pc = "alloc" /\ production_plan # <<>>
        /\ ~IsZero(production_plan[Len(production_plan)].p)) =>
           branch \in {"full", "fill"}

====
